---- MODULE Spec2Model ----
(***************************************************************************)
(* Model of the fund CRUD service of app/main.py: five request handlers    *)
(* over one JSON file (temp_db.json) that holds the whole fund collection. *)
(* Every handler loads the whole file, scans / mutates its private copy    *)
(* and (for the mutating handlers) writes the whole copy back.             *)
(*                                                                         *)
(* Spec     : requests are handled one at a time (one action = one whole   *)
(*            handler, load .. save .. response).                          *)
(* ConcSpec : two server workers handle one mutating request each; the     *)
(*            load and the check-mutate-save parts are separate steps.     *)
(***************************************************************************)
EXTENDS Integers, Sequences, FiniteSets, TLC

\* ------------------------------------------------------------ bounds ----
NumIds == 3
MaxSeed == 2

\* ------------------------------------------------- request payloads ----
IdPool == <<"f1", "f2", "f3", "f4", "f5", "f6">>
NamePool == <<"Alpha", "Beta", "Gamma">>
Ids == {IdPool[i] : i \in 1..NumIds}
Names == {NamePool[i] : i \in 1..3}

\* performance values sent with a create request (the create path has no
\* range check) and with an update request
CreatePerf == {150}
UpdatePerf == {-1, 0, 100, 101}

HTTP_200_OK == 200
HTTP_201_CREATED == 201
HTTP_400_BAD_REQUEST == 400
HTTP_404_NOT_FOUND == 404

\* the Fund shape (app.definitions.FundDetails): the seven named fields
FundFields == {"fund_id", "fund_name", "manager_name", "desc", "net_asset",
               "created_at", "performance"}

FundDetails(d) ==
    /\ DOMAIN d = FundFields
    /\ d.fund_id \in STRING
    /\ d.fund_name \in STRING
    /\ d.manager_name \in STRING
    /\ d.desc \in STRING
    /\ d.net_asset \in Int
    /\ d.created_at \in STRING
    /\ d.performance \in Int

\* request bodies of POST /create-fund that pass the FundDetails validation
FundPayloads ==
    {[fund_id |-> i, fund_name |-> n, manager_name |-> "A", desc |-> "d",
      net_asset |-> 100, created_at |-> "2024-01-01T00:00:00Z",
      performance |-> p] : i \in Ids, n \in Names, p \in CreatePerf}

\* ---------------------------------------------------------- state ------
VARIABLES
    db,            \* content of temp_db.json: the sequence of fund objects
    req,           \* the request being answered (sequential service)
    resp,          \* its response
    saved,         \* whether its handler called save_json
    createdOrder,  \* history: ids of the live funds, in the order their
                   \* Create requests succeeded
    createdRec,    \* history: per id, the record of its last successful
                   \* Create, forgotten by a successful update / delete of it
    deletedIds,    \* history: ids deleted and not successfully created since
    pc,            \* per worker: "idle", "loaded", "done"
    creq,          \* per worker: the request it handles
    funds,         \* per worker: its request-scoped copy of the collection
    cstatus,       \* per worker: status code of its response (0: none yet)
    saveOrder,     \* workers in the order they called save_json
    seen,          \* per worker: number of saves done before its load
    seed           \* the collection the two concurrent requests start from

seqVars == <<req, resp, saved, createdOrder, createdRec, deletedIds>>
concVars == <<pc, creq, funds, cstatus, saveOrder, seen, seed>>
vars == <<db, req, resp, saved, createdOrder, createdRec, deletedIds, pc, creq, funds, cstatus, saveOrder, seen, seed>>

Workers == {1, 2}

\* ------------------------------------------------- storage accessor ----
\* helper.load_json / helper.save_json: the file holds the JSON array of
\* field-named objects; loading yields a fresh list of dicts with the same
\* keys and values, saving replaces the whole file with the list given.
load_json(file) == [i \in 1..Len(file) |-> [k \in DOMAIN file[i] |-> file[i][k]]]

save_json(file, data) == [i \in 1..Len(data) |-> [k \in DOMAIN data[i] |-> data[i][k]]]

\* ------------------------------------------------- python helpers ------
\* for f in funds: if f['fund_id'] == fund_id: ...; break
\* index of the first match, 0 when the loop ends without a match (None)
RECURSIVE ScanFrom(_, _, _)
ScanFrom(fs, fund_id, i) ==
    IF i > Len(fs) THEN 0
    ELSE IF fs[i].fund_id = fund_id THEN i
    ELSE ScanFrom(fs, fund_id, i + 1)

FindFund(fs, fund_id) == ScanFrom(fs, fund_id, 1)

\* variant: only the last stored fund is compared
AnyFundId_LastOnly(fs, fund_id) == Len(fs) > 0 /\ fs[Len(fs)].fund_id = fund_id

\* any(f['fund_id'] == fund.fund_id for f in funds)
AnyFundId(fs, fund_id) == \E i \in 1..Len(fs) : fs[i].fund_id = fund_id

\* variant: only the first stored fund is compared
AnyFundName_FirstOnly(fs, fund_name) == Len(fs) > 0 /\ fs[1].fund_name = fund_name

\* any(f['fund_name'] == fund.fund_name for f in funds)
AnyFundName(fs, fund_name) == \E i \in 1..Len(fs) : fs[i].fund_name = fund_name

\* list.remove(x): drops the first element equal to x
RECURSIVE FirstEqual(_, _, _)
FirstEqual(fs, x, i) ==
    IF i > Len(fs) THEN 0
    ELSE IF fs[i] = x THEN i
    ELSE FirstEqual(fs, x, i + 1)

\* variant: drops the last element (list.pop())
ListRemove_Pop(fs, x) == [i \in 1..(Len(fs) - 1) |-> fs[i]]

ListRemove(fs, x) ==
    LET k == FirstEqual(fs, x, 1)
    IN  [i \in 1..(Len(fs) - 1) |-> IF i < k THEN fs[i] ELSE fs[i + 1]]

\* ------------------------------------------------ handler bodies -------
\* Each handler body maps the loaded collection and the request to
\* [status, detail, fund, funds_list, save, data]: the response, whether
\* save_json is called, and the collection handed to it.
Result(status, detail, fund, lst, save, data) ==
    [status |-> status, detail |-> detail, fund |-> fund, funds_list |-> lst,
     save |-> save, data |-> data]

\* retrieve_all_funds
RetrieveAllBody(fs) ==
    IF Len(fs) = 0
    THEN Result(HTTP_201_CREATED, "", <<>>, <<>>, FALSE, fs)
    ELSE IF \E i \in 1..Len(fs) : ~FundDetails(fs[i])
    THEN Result(HTTP_400_BAD_REQUEST, "Failed to retrieve all funds", <<>>, <<>>, FALSE, fs)
    ELSE Result(HTTP_201_CREATED, "", <<>>, [i \in 1..Len(fs) |-> fs[i]], FALSE, fs)

\* variant: the new fund is put in front (funds.insert(0, ...))
CreateAppend_Front(fs, fund) == <<fund>> \o fs

\* funds.append(fund.model_dump())
CreateAppend(fs, fund) == Append(fs, fund)

\* variant: the fund is appended and saved before the name check
CreateBody_SaveBeforeNameCheck(fs, fund) ==
    IF AnyFundId(fs, fund.fund_id)
    THEN Result(HTTP_400_BAD_REQUEST, "Fund was not created due to ID conflict",
                <<>>, <<>>, FALSE, fs)
    ELSE IF AnyFundName(fs, fund.fund_name)
    THEN Result(HTTP_400_BAD_REQUEST, "Fund was not created to avoid duplication conflict",
                <<>>, <<>>, TRUE, Append(fs, fund))
    ELSE Result(HTTP_200_OK, "Successfully created new fund",
                <<>>, <<>>, TRUE, Append(fs, fund))

\* create_fund

CreateBody(fs, fund) ==
    IF AnyFundId(fs, fund.fund_id)
    THEN Result(HTTP_400_BAD_REQUEST, "Fund was not created due to ID conflict",
                <<>>, <<>>, FALSE, fs)
    ELSE IF AnyFundName(fs, fund.fund_name)
    THEN Result(HTTP_400_BAD_REQUEST, "Fund was not created to avoid duplication conflict",
                <<>>, <<>>, FALSE, fs)
    ELSE Result(HTTP_200_OK, "Successfully created new fund",
                <<>>, <<>>, TRUE, CreateAppend(fs, fund))

\* variant: the scan does not compare, the first fund is taken
RetrieveOneBody_First(fs, fund_id) ==
    IF Len(fs) = 0
    THEN Result(HTTP_404_NOT_FOUND, "Failed to retrieve specific fund.",
                <<>>, <<>>, FALSE, fs)
    ELSE Result(HTTP_200_OK, "", <<fs[1]>>, <<>>, FALSE, fs)

\* retrieve_specific_fund
RetrieveOneBody(fs, fund_id) ==
    LET k == FindFund(fs, fund_id)
    IN  IF k = 0
        THEN Result(HTTP_404_NOT_FOUND, "Failed to retrieve specific fund.",
                    <<>>, <<>>, FALSE, fs)
        ELSE Result(HTTP_200_OK, "", <<fs[k]>>, <<>>, FALSE, fs)

\* variant: no lower bound
ValidPercentage_NoLower(performance) == performance <= 100

\* 0 <= performance <= 100
ValidPercentage(performance) == 0 <= performance /\ performance <= 100

\* variant: every fund gets the value
SetPerformance_All(fs, k, performance) ==
    [i \in 1..Len(fs) |-> [fs[i] EXCEPT !.performance = performance]]

\* fund["performance"] = performance, fund being the dict found in funds
SetPerformance(fs, k, performance) == [fs EXCEPT ![k].performance = performance]

\* variant: the range check comes before the existence check
UpdateBody_RangeFirst(fs, fund_id, performance) ==
    LET k == FindFund(fs, fund_id)
    IN  IF ~ValidPercentage(performance)
        THEN Result(HTTP_400_BAD_REQUEST, "Failed to update fund performance.",
                    <<>>, <<>>, FALSE, fs)
        ELSE IF k = 0
        THEN Result(HTTP_404_NOT_FOUND, "Failed to update fund performance.",
                    <<>>, <<>>, FALSE, fs)
        ELSE Result(HTTP_200_OK, "Successfully updated fund performance",
                    <<>>, <<>>, TRUE, SetPerformance(fs, k, performance))

\* update_fund_performance

UpdateBody(fs, fund_id, performance) ==
    LET k == FindFund(fs, fund_id)
    IN  IF k = 0
        THEN Result(HTTP_404_NOT_FOUND, "Failed to update fund performance.",
                    <<>>, <<>>, FALSE, fs)
        ELSE IF ~ValidPercentage(performance)
        THEN Result(HTTP_400_BAD_REQUEST, "Failed to update fund performance.",
                    <<>>, <<>>, FALSE, fs)
        ELSE Result(HTTP_200_OK, "Successfully updated fund performance",
                    <<>>, <<>>, TRUE, SetPerformance(fs, k, performance))

\* delete_fund
DeleteBody(fs, fund_id) ==
    LET k == FindFund(fs, fund_id)
    IN  IF k = 0
        THEN Result(HTTP_404_NOT_FOUND, "Failed to delete fund",
                    <<>>, <<>>, FALSE, fs)
        ELSE Result(HTTP_200_OK, "Successfully deleted fund",
                    <<>>, <<>>, TRUE, ListRemove(fs, fs[k]))

\* ------------------------------------------- sequential service --------
\* (fields are listed in one fixed order throughout the module)
NoRequest == [fund_id |-> "", performance |-> 0, fund |-> <<>>, op |-> "none"]
NoResponse == [status |-> 0, detail |-> "", fund |-> <<>>, funds_list |-> <<>>]

Request(op, fund_id, performance, fund) ==
    [fund_id |-> fund_id, performance |-> performance, fund |-> fund, op |-> op]

Response(r) ==
    [status |-> r.status, detail |-> r.detail, fund |-> r.fund,
     funds_list |-> r.funds_list]

\* one whole handler run: load, body, optional save, response.  Requests
\* are taken one at a time: the next one once the last was answered.
Handle(r, rq) ==
    /\ req.op = "none"
    /\ req' = rq
    /\ resp' = Response(r)
    /\ saved' = r.save
    /\ db' = IF r.save THEN save_json(db, r.data) ELSE db

RemoveId(order, fund_id) == SelectSeq(order, LAMBDA x : x # fund_id)

Init ==
    /\ db = <<>>
    /\ req = NoRequest
    /\ resp = NoResponse
    /\ saved = FALSE
    /\ createdOrder = <<>>
    /\ createdRec = [i \in Ids |-> <<>>]
    /\ deletedIds = {}
    /\ pc = [w \in Workers |-> "idle"]
    /\ creq = [w \in Workers |-> NoRequest]
    /\ funds = [w \in Workers |-> <<>>]
    /\ cstatus = [w \in Workers |-> 0]
    /\ saveOrder = <<>>
    /\ seen = [w \in Workers |-> 0]
    /\ seed = <<>>

List ==
    /\ Handle(RetrieveAllBody(load_json(db)), Request("list", "", 0, <<>>))
    /\ UNCHANGED <<createdOrder, createdRec, deletedIds>>
    /\ UNCHANGED concVars

Create ==
    \E fund \in FundPayloads :
        LET r == CreateBody(load_json(db), fund)
        IN  /\ Handle(r, Request("create", fund.fund_id, 0, <<fund>>))
            /\ createdOrder' = IF r.status = HTTP_200_OK
                               THEN Append(createdOrder, fund.fund_id)
                               ELSE createdOrder
            /\ createdRec' = IF r.status = HTTP_200_OK
                             THEN [createdRec EXCEPT ![fund.fund_id] = <<fund>>]
                             ELSE createdRec
            /\ deletedIds' = IF r.status = HTTP_200_OK
                             THEN deletedIds \ {fund.fund_id}
                             ELSE deletedIds
            /\ UNCHANGED concVars

GetOne ==
    \E fund_id \in Ids :
        /\ Handle(RetrieveOneBody(load_json(db), fund_id),
                  Request("get", fund_id, 0, <<>>))
        /\ UNCHANGED <<createdOrder, createdRec, deletedIds>>
        /\ UNCHANGED concVars

UpdatePerformance ==
    \E fund_id \in Ids, performance \in UpdatePerf :
        LET r == UpdateBody(load_json(db), fund_id, performance)
        IN  /\ Handle(r, Request("update", fund_id, performance, <<>>))
            /\ createdRec' = IF r.status = HTTP_200_OK
                             THEN [createdRec EXCEPT ![fund_id] = <<>>]
                             ELSE createdRec
            /\ UNCHANGED <<createdOrder, deletedIds>>
            /\ UNCHANGED concVars

Delete ==
    \E fund_id \in Ids :
        LET r == DeleteBody(load_json(db), fund_id)
        IN  /\ Handle(r, Request("delete", fund_id, 0, <<>>))
            /\ createdOrder' = IF r.status = HTTP_200_OK
                               THEN RemoveId(createdOrder, fund_id)
                               ELSE createdOrder
            /\ createdRec' = IF r.status = HTTP_200_OK
                             THEN [createdRec EXCEPT ![fund_id] = <<>>]
                             ELSE createdRec
            /\ deletedIds' = IF r.status = HTTP_200_OK
                             THEN deletedIds \cup {fund_id}
                             ELSE deletedIds
            /\ UNCHANGED concVars

\* the response goes out to the client; the handler keeps nothing in memory
Return ==
    /\ req.op # "none"
    /\ req' = NoRequest
    /\ resp' = NoResponse
    /\ saved' = FALSE
    /\ UNCHANGED <<db, createdOrder, createdRec, deletedIds>>
    /\ UNCHANGED concVars

Next == List \/ Create \/ GetOne \/ UpdatePerformance \/ Delete \/ Return

Spec == Init /\ [][Next]_vars

\* ------------------------------------------- concurrent workers --------
\* The handlers take no lock on temp_db.json and keep no shared in-memory
\* state: with more than one server worker, another worker's load or save
\* can fall between a handler's load_json and its save_json.  Everything
\* between the two calls works on the handler's own list.

\* collections the sequential service reaches by MaxSeed creates at most
SeedStores ==
    {s \in UNION {[1..n -> FundPayloads] : n \in 0..MaxSeed} :
        \A i, j \in 1..Len(s) :
            i # j => s[i].fund_id # s[j].fund_id /\ s[i].fund_name # s[j].fund_name}

ConcInit ==
    /\ db \in SeedStores
    /\ seed = db
    /\ req = NoRequest
    /\ resp = NoResponse
    /\ saved = FALSE
    /\ createdOrder = <<>>
    /\ createdRec = [i \in Ids |-> <<>>]
    /\ deletedIds = {}
    /\ pc = [w \in Workers |-> "idle"]
    /\ creq = [w \in Workers |-> NoRequest]
    /\ funds = [w \in Workers |-> <<>>]
    /\ cstatus = [w \in Workers |-> 0]
    /\ saveOrder = <<>>
    /\ seen = [w \in Workers |-> 0]

\* funds = helper.load_json(FILE_DIR), first statement of each handler
Load(w, rq) ==
    /\ pc[w] = "idle"
    /\ funds' = [funds EXCEPT ![w] = load_json(db)]
    /\ creq' = [creq EXCEPT ![w] = rq]
    /\ seen' = [seen EXCEPT ![w] = Len(saveOrder)]
    /\ pc' = [pc EXCEPT ![w] = "loaded"]
    /\ UNCHANGED <<db, cstatus, saveOrder, seed>>
    /\ UNCHANGED seqVars

\* variant: the file is read again when the handler resumes
WorkerFunds_Reload(w) == load_json(db)

\* the list a handler scans, mutates and saves: the one it loaded
WorkerFunds(w) == funds[w]

\* the rest of the handler: checks, mutation of the own list, save_json
Finish(w, op, r) ==
    /\ pc[w] = "loaded"
    /\ creq[w].op = op
    /\ cstatus' = [cstatus EXCEPT ![w] = r.status]
    /\ db' = IF r.save THEN save_json(db, r.data) ELSE db
    /\ saveOrder' = IF r.save THEN Append(saveOrder, w) ELSE saveOrder
    /\ pc' = [pc EXCEPT ![w] = "done"]
    /\ UNCHANGED <<creq, funds, seen, seed>>
    /\ UNCHANGED seqVars

LoadCreate == \E w \in Workers, fund \in FundPayloads :
    Load(w, Request("create", fund.fund_id, 0, <<fund>>))

LoadUpdate == \E w \in Workers, fund_id \in Ids, performance \in UpdatePerf :
    Load(w, Request("update", fund_id, performance, <<>>))

LoadDelete == \E w \in Workers, fund_id \in Ids :
    Load(w, Request("delete", fund_id, 0, <<>>))

SaveCreate == \E w \in Workers :
    Finish(w, "create", CreateBody(WorkerFunds(w), creq[w].fund[1]))

SaveUpdate == \E w \in Workers :
    Finish(w, "update", UpdateBody(WorkerFunds(w), creq[w].fund_id, creq[w].performance))

SaveDelete == \E w \in Workers :
    Finish(w, "delete", DeleteBody(WorkerFunds(w), creq[w].fund_id))

ConcNext == LoadCreate \/ LoadUpdate \/ LoadDelete \/ SaveCreate \/ SaveUpdate \/ SaveDelete

ConcSpec == ConcInit /\ [][ConcNext]_vars


\* ------------------------------------------------------- properties ----
HasId(s, fund_id) == \E i \in 1..Len(s) : s[i].fund_id = fund_id

InRange(p) == p >= 0 /\ p <= 100

\* C1: with requests handled one at a time from the empty store, no two
\* records of the persisted collection have the same fund_id.
C1_UniqueFundId ==
    \A i, j \in 1..Len(db) : i # j => db[i].fund_id # db[j].fund_id

\* a create was refused for its id while the store holds two funds, after a
\* delete has happened
C1_Witness ==
    /\ Len(db) >= 2
    /\ deletedIds # {}
    /\ req.op = "create"
    /\ resp.status = 400
    /\ HasId(db, req.fund_id)

\* C2: with requests handled one at a time from the empty store, no two
\* records of the persisted collection have the same fund_name.
C2_UniqueFundName ==
    \A i, j \in 1..Len(db) : i # j => db[i].fund_name # db[j].fund_name

\* a create with a fresh id was refused for its name while the store holds
\* two funds
C2_Witness ==
    /\ Len(db) >= 2
    /\ req.op = "create"
    /\ resp.status = 400
    /\ ~HasId(db, req.fund_id)
    /\ \E i \in 1..Len(db) : db[i].fund_name = req.fund[1].fund_name

\* C3: a Create whose fund_id is stored, or whose fund_name is stored under
\* another fund_id, is answered 400 and leaves the file as it was, without
\* a save.
C3_CreateConflict ==
    [][(/\ req'.op = "create"
        /\ \/ HasId(db, req'.fund[1].fund_id)
           \/ \E i \in 1..Len(db) :
                 /\ db[i].fund_name = req'.fund[1].fund_name
                 /\ db[i].fund_id # req'.fund[1].fund_id)
       => (resp'.status = 400 /\ db' = db /\ ~saved')]_vars

\* a refused create: same name as the second stored fund, different id
C3_Witness ==
    /\ req.op = "create"
    /\ resp.status = 400
    /\ ~saved
    /\ Len(db) >= 2
    /\ db[2].fund_name = req.fund[1].fund_name
    /\ db[2].fund_id # req.fund[1].fund_id
    /\ db[1].fund_id # req.fund[1].fund_id

\* C4: an UpdatePerformance of a stored fund with a value outside [0, 100]
\* is answered 400 and leaves the file as it was; a successful one wrote a
\* value of [0, 100]; 0 and 100 are accepted.
C4_UpdateRange ==
    [][(req'.op = "update" /\ HasId(db, req'.fund_id))
       => /\ ~InRange(req'.performance) => (resp'.status = 400 /\ db' = db)
          /\ resp'.status = 200 =>
                /\ InRange(req'.performance)
                /\ \E i \in 1..Len(db') :
                      /\ db'[i].fund_id = req'.fund_id
                      /\ db'[i].performance = req'.performance
          /\ req'.performance \in {0, 100} => resp'.status = 200]_vars

\* an update to 101 of a stored fund was refused
C4_Witness ==
    /\ req.op = "update"
    /\ req.performance = 101
    /\ resp.status = 400
    /\ \E i \in 1..Len(db) : db[i].fund_id = req.fund_id /\ db[i].performance = 100

\* C5: a successful UpdatePerformance(fund_id, p) changes the performance
\* field of the record with that fund_id to p and nothing else: the other
\* fields, the other records, their number and their order stay.
C5_UpdateFrame ==
    [][(req'.op = "update" /\ resp'.status = 200)
       => /\ Len(db') = Len(db)
          /\ HasId(db, req'.fund_id)
          /\ \A i \in 1..Len(db) :
                db'[i] = IF db[i].fund_id = req'.fund_id
                         THEN [fund_id |-> db[i].fund_id,
                               fund_name |-> db[i].fund_name,
                               manager_name |-> db[i].manager_name,
                               desc |-> db[i].desc,
                               net_asset |-> db[i].net_asset,
                               created_at |-> db[i].created_at,
                               performance |-> req'.performance]
                         ELSE db[i]]_vars

\* a successful update of the second of three stored funds
C5_Witness ==
    /\ req.op = "update"
    /\ resp.status = 200
    /\ Len(db) = 3
    /\ db[2].fund_id = req.fund_id
    /\ db[2].performance = 0
    /\ db[1].performance = 150
    /\ db[3].performance = 100

\* C6: Delete of an id that is not stored is answered 404 and leaves the
\* file as it was; Delete of a stored id removes that one record and keeps
\* the others, in their order; a GetOne of an id deleted and not created
\* again is answered 404.
C6_Delete ==
    [][/\ (req'.op = "delete" /\ ~HasId(db, req'.fund_id))
            => (resp'.status = 404 /\ db' = db)
       /\ (req'.op = "delete" /\ HasId(db, req'.fund_id))
            => /\ resp'.status = 200
               /\ Len(db') = Len(db) - 1
               /\ \E k \in 1..Len(db) :
                     /\ db[k].fund_id = req'.fund_id
                     /\ \A i \in 1..Len(db') :
                           db'[i] = IF i < k THEN db[i] ELSE db[i + 1]
       /\ (req'.op = "get" /\ req'.fund_id \in deletedIds)
            => resp'.status = 404]_vars

\* a GetOne of a deleted fund, answered 404, two other funds being stored
C6_Witness ==
    /\ req.op = "get"
    /\ req.fund_id \in deletedIds
    /\ resp.status = 404
    /\ Len(db) = 2

\* C7: a GetOne of a fund created and neither updated nor deleted since
\* returns the record as it was created, field by field; a GetOne of an id
\* that is not stored is answered 404.
C7_GetOne ==
    [][req'.op = "get"
       => /\ createdRec[req'.fund_id] # <<>>
                => /\ resp'.status = 200
                   /\ Len(resp'.fund) = 1
                   /\ \A k \in FundFields :
                         resp'.fund[1][k] = createdRec[req'.fund_id][1][k]
                   /\ DOMAIN resp'.fund[1] = FundFields
          /\ ~HasId(db, req'.fund_id) => resp'.status = 404]_vars

\* a GetOne returned the third stored fund as created
C7_Witness ==
    /\ req.op = "get"
    /\ resp.status = 200
    /\ createdRec[req.fund_id] # <<>>
    /\ Len(db) = 3
    /\ db[3].fund_id = req.fund_id

\* C8: List returns the stored records, each once, in the order their
\* Create requests succeeded (deleted funds left out, updated funds in
\* place); on the empty store it returns the empty sequence and no error;
\* it does not change the file.
C8_List ==
    [][req'.op = "list"
       => /\ resp'.status = 201
          /\ db' = db
          /\ ~saved'
          /\ resp'.funds_list = db
          /\ Len(resp'.funds_list) = Len(createdOrder)
          /\ \A i \in 1..Len(createdOrder) :
                resp'.funds_list[i].fund_id = createdOrder[i]
          /\ \A i, j \in 1..Len(resp'.funds_list) :
                i # j => resp'.funds_list[i] # resp'.funds_list[j]
          /\ Len(db) = 0 => resp'.funds_list = <<>>]_vars

\* a List of two funds after a delete, the first one updated
C8_Witness ==
    /\ req.op = "list"
    /\ resp.status = 201
    /\ Len(resp.funds_list) = 2
    /\ deletedIds # {}
    /\ resp.funds_list[1].performance = 0
    /\ resp.funds_list[2].performance = 150

\* C9: when two workers both load the collection before either saves and
\* both answer success, the file holds the collection loaded with the
\* change of the worker that saved last, and nothing of the other's.
ExpectedAfter(s, rq) ==
    IF rq.op = "create" THEN s \o rq.fund
    ELSE IF rq.op = "update"
    THEN [i \in 1..Len(s) |->
            IF s[i].fund_id = rq.fund_id
            THEN [s[i] EXCEPT !.performance = rq.performance]
            ELSE s[i]]
    ELSE SelectSeq(s, LAMBDA f : f.fund_id # rq.fund_id)

BothSucceededRacing ==
    /\ \A w \in Workers :
          pc[w] = "done" /\ cstatus[w] = 200 /\ seen[w] = 0
    /\ Len(saveOrder) = 2

C9_LostUpdate ==
    BothSucceededRacing => db = ExpectedAfter(seed, creq[saveOrder[2]])

\* a create and a delete both answered success, the created fund is not in
\* the file
C9_Witness ==
    /\ BothSucceededRacing
    /\ creq[saveOrder[1]].op = "create"
    /\ creq[saveOrder[2]].op = "delete"
    /\ ~HasId(db, creq[saveOrder[1]].fund_id)

\* C10: an UpdatePerformance of an id that is not stored is answered 404
\* whatever the value, never 400; a failing UpdatePerformance performs no
\* save and leaves the file as it was.
C10_UpdateNotFoundFirst ==
    [][req'.op = "update"
       => /\ ~HasId(db, req'.fund_id) => resp'.status = 404
          /\ resp'.status \in {400, 404} => (~saved' /\ db' = db)
          /\ resp'.status \in {200, 400, 404}]_vars

\* an update to -1 of an id that is not stored, answered 404
C10_Witness ==
    /\ req.op = "update"
    /\ req.performance = -1
    /\ resp.status = 404
    /\ ~HasId(db, req.fund_id)
    /\ Len(db) >= 1

====
